---- MODULE Spec2Model ----
(***************************************************************************)
(* Model of final-project-golang-ai-v4/main.go: the CSV-to-table loader    *)
(* (CsvToSlice), the retrying inference client (ConnectAIModel) and the    *)
(* web server of main() that shares one table between its /query handlers. *)
(*                                                                         *)
(* CSV text is a sequence of one-character strings.  The alphabet has no   *)
(* quote and no carriage return, so encoding/csv reads it by splitting on  *)
(* newlines and commas, skipping empty lines, and enforcing the field      *)
(* count of the first record (Reader.FieldsPerRecord is left at 0).        *)
(* Times are counted in tenths of a second, so that 0.5 s is 5.            *)
(***************************************************************************)
EXTENDS Integers, Sequences, FiniteSets, TLC

VARIABLES data, csvPc, csvOut,
          token, pcMain, table,
          pc, query, req, i, ret, lastResp, lastWait, sent, nreq, nwait, nload

csvVars  == <<data, csvPc, csvOut>>
mainVars == <<token, pcMain, table>>
callVars == <<pc, query, req, i, ret, lastResp, lastWait, sent, nreq, nwait, nload>>
vars     == <<data, csvPc, csvOut, token, pcMain, table,
              pc, query, req, i, ret, lastResp, lastWait, sent, nreq, nwait, nload>>

----------------------------------------------------------------------------
(* Bounds *)

MaxTextLen == 6
NumHandlers == 2

CsvChars == {"x", "y", ",", "\n"}

RECURSIVE SeqsUpTo(_, _)
SeqsUpTo(S, n) ==
  IF n = 0 THEN {<<>>}
  ELSE LET shorter == SeqsUpTo(S, n - 1)
       IN  shorter \cup {Append(s, c) : s \in {t \in shorter : Len(t) = n - 1}, c \in S}

Texts == SeqsUpTo(CsvChars, MaxTextLen)

----------------------------------------------------------------------------
(* encoding/csv as CsvToSlice uses it *)

\* The pieces of s between occurrences of sep (k separators give k+1 pieces).
RECURSIVE Split(_, _)
Split(s, sep) ==
  IF s = <<>> THEN << <<>> >>
  ELSE LET rest == Split(Tail(s), sep)
       IN  IF Head(s) = sep
           THEN << <<>> >> \o rest
           ELSE << <<Head(s)>> \o Head(rest) >> \o Tail(rest)

RECURSIVE DropEmpty(_)
DropEmpty(lines) ==
  IF lines = <<>> THEN <<>>
  ELSE IF Head(lines) = <<>> THEN DropEmpty(Tail(lines))
       ELSE <<Head(lines)>> \o DropEmpty(Tail(lines))

\* The records the reader yields before it checks field counts.
RawRecords(text) ==
  LET lines == DropEmpty(Split(text, "\n"))
  IN  [k \in 1..Len(lines) |-> Split(lines[k], ",")]

\* csv.Reader.ReadAll with FieldsPerRecord = 0: the first record fixes the
\* field count, and a later record of another length is ErrFieldCount.
ReadAll(text) ==
  LET recs == RawRecords(text)
  IN  IF \E k \in 1..Len(recs) : Len(recs[k]) # Len(recs[1])
      THEN [records |-> <<>>, err |-> "wrong number of fields"]
      ELSE [records |-> recs, err |-> "nil"]

----------------------------------------------------------------------------
(* CsvToSlice *)

NilTable == <<>>

RECURSIVE ColumnPrepends(_, _)
ColumnPrepends(rows, idx) ==
  IF rows = <<>> THEN <<>>
  ELSE IF idx <= Len(Head(rows))
       THEN ColumnPrepends(Tail(rows), idx) \o <<Head(rows)[idx]>>
       ELSE ColumnPrepends(Tail(rows), idx)

\* The inner loop: the i-th field of every data row that has one.
RECURSIVE Column(_, _)
Column(rows, idx) ==
  IF rows = <<>> THEN <<>>
  ELSE IF idx <= Len(Head(rows))
       THEN <<Head(rows)[idx]>> \o Column(Tail(rows), idx)
       ELSE Column(Tail(rows), idx)

\* The outer loop from header position idx on: result[col] is assigned anew.
RECURSIVE FillColumns(_, _, _, _)
FillColumns(header, rows, idx, result) ==
  IF idx > Len(header) THEN result
  ELSE LET col == header[idx]
           next == [k \in (DOMAIN result) \cup {col} |->
                      IF k = col THEN Column(rows, idx) ELSE result[k]]
       IN  FillColumns(header, rows, idx + 1, next)

CsvToSliceWantsDataRow(text) ==
  LET r == ReadAll(text)
  IN  IF r.err # "nil" THEN [table |-> NilTable, err |-> r.err]
      ELSE IF Len(r.records) < 2 THEN [table |-> NilTable, err |-> "no data found"]
      ELSE [table |-> FillColumns(r.records[1], Tail(r.records), 1, <<>>),
            err |-> "nil"]

CsvToSlice(text) ==
  LET r == ReadAll(text)
  IN  IF r.err # "nil" THEN [table |-> NilTable, err |-> r.err]
      ELSE IF Len(r.records) < 1 THEN [table |-> NilTable, err |-> "no data found"]
      ELSE [table |-> FillColumns(r.records[1], Tail(r.records), 1, <<>>),
            err |-> "nil"]

----------------------------------------------------------------------------
(* The remote service as the client sees it *)

maxRetriesOneMore == 5 + 6
maxRetries == 10
StatusOK == 200
StatusNotFound == 404
StatusServiceUnavailable == 503

Handlers == 1..NumHandlers

ValidBody     == "{\"answer\":\"42\",\"aggregator\":\"NONE\"}"
Loading00Body == "{\"error\":\"loading\",\"estimated_time\":0.0}"
Loading05Body == "{\"error\":\"loading\",\"estimated_time\":0.5}"
Loading30Body == "{\"error\":\"loading\",\"estimated_time\":3.0}"
Loading207Body == "{\"error\":\"loading\",\"estimated_time\":20.7}"
LoadingStrBody == "{\"error\":\"loading\",\"estimated_time\":\"soon\"}"
ErrorOnlyBody == "{\"error\":\"overloaded\"}"
NotJsonBody   == "<html>Service Unavailable</html>"
NotFoundBody  == "Not Found"

\* estimated_time of the loading bodies, in tenths of a second.
EstimatedTimes ==
  [b \in {Loading00Body, Loading05Body, Loading30Body, Loading207Body} |->
     CASE b = Loading00Body -> 0
       [] b = Loading05Body -> 5
       [] b = Loading30Body -> 30
       [] b = Loading207Body -> 207]

JsonObjects == (DOMAIN EstimatedTimes) \cup {ValidBody, LoadingStrBody, ErrorOnlyBody}

\* json.Unmarshal(body, &result) into map[string]interface{}, then
\* result["estimated_time"].(float64).
Unmarshal(body) ==
  IF body \notin JsonObjects THEN [err |-> "invalid JSON", isFloat |-> FALSE, estimatedTime |-> 0]
  ELSE IF body \in DOMAIN EstimatedTimes
       THEN [err |-> "nil", isFloat |-> TRUE, estimatedTime |-> EstimatedTimes[body]]
       ELSE [err |-> "nil", isFloat |-> FALSE, estimatedTime |-> 0]

ZeroResponse == [Answer |-> "", Aggregator |-> ""]

DecodeDropsFields(body) ==
  IF body \notin JsonObjects THEN [err |-> "invalid JSON", val |-> ZeroResponse]
  ELSE [err |-> "nil", val |-> ZeroResponse]

\* json.NewDecoder(resp.Body).Decode(&aiResponse): unknown keys are ignored,
\* absent keys leave the zero value.
Decode(body) ==
  IF body \notin JsonObjects THEN [err |-> "invalid JSON", val |-> ZeroResponse]
  ELSE IF body = ValidBody THEN [err |-> "nil", val |-> [Answer |-> "42", Aggregator |-> "NONE"]]
  ELSE [err |-> "nil", val |-> ZeroResponse]

\* ioutil.ReadAll on a response body stream: everything unread, and the
\* stream is left at its end.
ReadAllBody(stream) == [bytes |-> stream, rest |-> ""]

\* time.Duration(estimatedTime) * time.Second, in tenths of a second: the
\* float is converted to an integer count first (truncation toward zero).
SleepDuration(estimatedTime) ==
  LET whole == IF estimatedTime >= 0 THEN estimatedTime \div 10
               ELSE 0 - ((0 - estimatedTime) \div 10)
  IN  whole * 10

TransportErr == [kind |-> "err", status |-> 0, body |-> ""]
Resp(status, body) == [kind |-> "resp", status |-> status, body |-> body]

Answers ==
  {TransportErr}
  \cup {Resp(StatusOK, b) : b \in {ValidBody, NotJsonBody, ErrorOnlyBody}}
  \cup {Resp(StatusServiceUnavailable, b) :
          b \in (DOMAIN EstimatedTimes) \cup {LoadingStrBody, ErrorOnlyBody, NotJsonBody, ""}}
  \cup {Resp(StatusNotFound, b) : b \in {NotFoundBody, Loading00Body}}

ServerAnswers ==
  {TransportErr, Resp(StatusOK, ValidBody),
   Resp(StatusServiceUnavailable, Loading00Body), Resp(StatusNotFound, NotFoundBody)}

\* The answers the service documents for a model that is still loading.
IsLoading(a) ==
  a.kind = "resp" /\ a.status = StatusServiceUnavailable /\ a.body \in DOMAIN EstimatedTimes

Queries == {"", "how many rows"}

----------------------------------------------------------------------------
(* ConnectAIModel *)

\* json.Marshal(payload): the members of Inputs in declaration order.
Marshal(payload) ==
  << [name |-> "table", value |-> payload.Table],
     [name |-> "query", value |-> payload.Query] >>

\* http.NewRequest with bytes.NewBuffer(data): the body is a buffer with a
\* read offset, and nothing in the loop resets it.
NewRequest(body) == [buf |-> body, off |-> 0]
NoRequest == [buf |-> <<>>, off |-> 0]

Unread(r) == SubSeq(r.buf, r.off + 1, Len(r.buf))

\* Client.Do: the transport transmits what is left of the body and leaves
\* the buffer at its end.  The transport is any http.RoundTripper, so its
\* answer is not tied to what it was sent: Attempt takes the answer as an
\* input.  (The stock HTTP/1 transport answers a body shorter than its
\* Content-Length with an error, which is one of the answers.)
Do(r) == [sent |-> Unread(r), req |-> [r EXCEPT !.off = Len(r.buf)]]

NoRet == [err |-> "none", status |-> 0, body |-> "", val |-> ZeroResponse]
Failure(kind, status, body) == [err |-> kind, status |-> status, body |-> body, val |-> ZeroResponse]
Success(val) == [err |-> "nil", status |-> 0, body |-> "", val |-> val]

IterationRetriesTransportError(a) ==
  IF a.kind = "err" THEN [next |-> "continue", ret |-> NoRet, wait |-> 0]
  ELSE IF a.status = StatusOK
  THEN LET d == Decode(a.body)
       IN  IF d.err # "nil"
           THEN [next |-> "return", ret |-> Failure("DecodeError", 0, ""), wait |-> 0]
           ELSE [next |-> "return", ret |-> Success(d.val), wait |-> 0]
  ELSE LET result == Unmarshal(a.body)
       IN  IF a.status = StatusServiceUnavailable /\ result.err = "nil" /\ result.isFloat
           THEN [next |-> "continue", ret |-> NoRet, wait |-> SleepDuration(result.estimatedTime)]
           ELSE [next |-> "return", ret |-> Failure("RemoteError", a.status, ""), wait |-> 0]

\* What one pass of the retry loop decides from the transport's answer a:
\* next is "continue" or "return".
Iteration(a) ==
  IF a.kind = "err" THEN [next |-> "return", ret |-> Failure("TransportError", 0, ""), wait |-> 0]
  ELSE IF a.status = StatusOK
  THEN LET d == Decode(a.body)
       IN  IF d.err # "nil"
           THEN [next |-> "return", ret |-> Failure("DecodeError", 0, ""), wait |-> 0]
           ELSE [next |-> "return", ret |-> Success(d.val), wait |-> 0]
  ELSE LET first == IF a.status = StatusServiceUnavailable
                    THEN ReadAllBody(a.body) ELSE [bytes |-> "", rest |-> a.body]
           result == Unmarshal(first.bytes)
       IN  IF a.status = StatusServiceUnavailable /\ result.err = "nil" /\ result.isFloat
           THEN [next |-> "continue", ret |-> NoRet, wait |-> SleepDuration(result.estimatedTime)]
           ELSE [next |-> "return",
                 ret |-> Failure("RemoteError", a.status, ReadAllBody(first.rest).bytes),
                 wait |-> 0]

ReceiveWritesTable(p, q) ==
  /\ pcMain = "serving"
  /\ pc[p] = "idle"
  /\ query' = [query EXCEPT ![p] = q]
  /\ IF q = ""
     THEN /\ pc' = [pc EXCEPT ![p] = "rejected"]
          /\ UNCHANGED <<req, table>>
     ELSE /\ pc' = [pc EXCEPT ![p] = "loop"]
          /\ table' = [k \in (DOMAIN table) \cup {<<"q">>} |-> IF k = <<"q">> THEN <<q>> ELSE table[k]]
          /\ req' = [req EXCEPT ![p] = NewRequest(Marshal([Table |-> table', Query |-> q]))]
  /\ UNCHANGED <<i, ret, lastResp, lastWait, sent, nreq, nwait, nload>>
  /\ UNCHANGED <<csvVars, token, pcMain>>

\* Lines 175-184 and 67-82: the handler reads the form, builds the payload
\* around the shared table, serializes it and builds the one request object.
Receive(p, q) ==
  /\ pcMain = "serving"
  /\ pc[p] = "idle"
  /\ query' = [query EXCEPT ![p] = q]
  /\ IF q = ""
     THEN /\ pc' = [pc EXCEPT ![p] = "rejected"]
          /\ UNCHANGED req
     ELSE /\ pc' = [pc EXCEPT ![p] = "loop"]
          /\ req' = [req EXCEPT ![p] = NewRequest(Marshal([Table |-> table, Query |-> q]))]
  /\ UNCHANGED <<i, ret, lastResp, lastWait, sent, nreq, nwait, nload>>
  /\ UNCHANGED <<csvVars, mainVars>>

\* Lines 83-114: one pass of the loop for the transport's answer a, with the
\* return after the loop when the pass was the last one.
Attempt(p, a) ==
  /\ pc[p] = "loop"
  /\ i[p] < maxRetries
  /\ LET d == Do(req[p])
         it == Iteration(a)
     IN  /\ req' = [req EXCEPT ![p] = d.req]
         /\ sent' = [sent EXCEPT ![p] = d.sent]
         /\ nreq' = [nreq EXCEPT ![p] = @ + 1]
         /\ nload' = [nload EXCEPT ![p] = IF IsLoading(a) THEN @ + 1 ELSE @]
         /\ lastResp' = [lastResp EXCEPT ![p] = a]
         /\ IF it.next = "continue"
            THEN /\ lastWait' = [lastWait EXCEPT ![p] = it.wait]
                 /\ nwait' = [nwait EXCEPT ![p] = @ + 1]
                 /\ i' = [i EXCEPT ![p] = @ + 1]
                 /\ IF i[p] + 1 < maxRetries
                    THEN UNCHANGED <<pc, ret>>
                    ELSE /\ pc' = [pc EXCEPT ![p] = "returned"]
                         /\ ret' = [ret EXCEPT ![p] = Failure("RetryExhausted", 0, "")]
            ELSE /\ pc' = [pc EXCEPT ![p] = "returned"]
                 /\ ret' = [ret EXCEPT ![p] = it.ret]
                 /\ UNCHANGED <<lastWait, nwait, i>>
  /\ UNCHANGED query
  /\ UNCHANGED <<csvVars, mainVars>>

\* Lines 176-199: the page is rendered from the call's outcome and the
\* handler's locals go out of scope.
Render(p) ==
  /\ pc[p] \in {"returned", "rejected"}
  /\ pc' = [pc EXCEPT ![p] = "idle"]
  /\ query' = [query EXCEPT ![p] = ""]
  /\ req' = [req EXCEPT ![p] = NoRequest]
  /\ i' = [i EXCEPT ![p] = 0]
  /\ ret' = [ret EXCEPT ![p] = NoRet]
  /\ lastResp' = [lastResp EXCEPT ![p] = TransportErr]
  /\ lastWait' = [lastWait EXCEPT ![p] = 0]
  /\ sent' = [sent EXCEPT ![p] = <<>>]
  /\ nreq' = [nreq EXCEPT ![p] = 0]
  /\ nwait' = [nwait EXCEPT ![p] = 0]
  /\ nload' = [nload EXCEPT ![p] = 0]
  /\ UNCHANGED <<csvVars, mainVars>>

----------------------------------------------------------------------------
(* main *)

GoodFile   == <<"x", ",", "y", "\n", "y", ",", "x">>
RaggedFile == <<"x", ",", "y", "\n", "x">>
EmptyFile  == <<>>
ServerFiles == {GoodFile, <<"x", "\n", "y", "\n", "x">>, RaggedFile, EmptyFile}
Tokens == {"", "hf_token"}

\* Lines 117-157: token check, file read, CsvToSlice, connector set-up.
\* log.Fatalf ends the process.
Main ==
  /\ pcMain = "boot"
  /\ LET r == CsvToSlice(data)
     IN  IF token = "" \/ r.err # "nil"
         THEN pcMain' = "fatal" /\ UNCHANGED table
         ELSE pcMain' = "serving" /\ table' = r.table
  /\ UNCHANGED <<data, csvPc, csvOut, token, callVars>>

IdleCalls ==
  /\ pc = [p \in Handlers |-> "idle"]
  /\ query = [p \in Handlers |-> ""]
  /\ req = [p \in Handlers |-> NoRequest]
  /\ i = [p \in Handlers |-> 0]
  /\ ret = [p \in Handlers |-> NoRet]
  /\ lastResp = [p \in Handlers |-> TransportErr]
  /\ lastWait = [p \in Handlers |-> 0]
  /\ sent = [p \in Handlers |-> <<>>]
  /\ nreq = [p \in Handlers |-> 0]
  /\ nwait = [p \in Handlers |-> 0]
  /\ nload = [p \in Handlers |-> 0]

NoCsvOut == [table |-> NilTable, err |-> "none"]

\* The server: main, then the handlers of concurrent /query requests.
Init ==
  /\ data \in ServerFiles
  /\ token \in Tokens
  /\ pcMain = "boot"
  /\ table = NilTable
  /\ csvPc = "off"
  /\ csvOut = NoCsvOut
  /\ IdleCalls

Next ==
  \/ Main
  \/ \E p \in Handlers, q \in Queries : Receive(p, q)
  \/ \E p \in Handlers, a \in ServerAnswers : Attempt(p, a)
  \/ \E p \in Handlers : Render(p)

Spec == Init /\ [][Next]_vars

\* One call of ConnectAIModel on a server that is up, against a transport
\* that may give any of Answers.
InitCall ==
  /\ data \in {f \in ServerFiles : CsvToSlice(f).err = "nil"}
  /\ token = "hf_token"
  /\ pcMain = "serving"
  /\ table = CsvToSlice(data).table
  /\ csvPc = "off"
  /\ csvOut = NoCsvOut
  /\ IdleCalls

NextCall ==
  \/ \E q \in Queries : Receive(1, q)
  \/ \E a \in Answers : Attempt(1, a)
  \/ Render(1)

SpecCall == InitCall /\ [][NextCall]_vars

\* CsvToSlice as a function of its argument.
CallCsvToSlice ==
  /\ csvPc = "ready"
  /\ csvOut' = CsvToSlice(data)
  /\ csvPc' = "done"
  /\ UNCHANGED <<data, mainVars, callVars>>

InitCsv ==
  /\ data \in Texts
  /\ csvPc = "ready"
  /\ csvOut = NoCsvOut
  /\ token = "hf_token"
  /\ pcMain = "off"
  /\ table = NilTable
  /\ IdleCalls

NextCsv == CallCsvToSlice

SpecCsv == InitCsv /\ [][NextCsv]_vars

----------------------------------------------------------------------------
(* Properties of ConnectAIModel, checked under SpecCall *)

Returned(p) == pc[p] = "returned"

\* C1: no call makes more than 10 transport requests, and a call whose
\* every attempt was answered with a 503 carrying a numeric estimated_time
\* returns after exactly 10 requests with the max-retries error.
C1_AtMostTenRequests ==
  \A p \in Handlers :
    /\ nreq[p] <= 10
    /\ (Returned(p) /\ nload[p] = nreq[p])
         => (nreq[p] = 10 /\ ret[p] = Failure("RetryExhausted", 0, ""))
    /\ ret[p].err = "RetryExhausted" => (nreq[p] = 10 /\ nload[p] = 10)

C1_Witness ==
  \E p \in Handlers :
    Returned(p) /\ nreq[p] = 10 /\ nload[p] = 10 /\ ret[p].err = "RetryExhausted"

\* C2: a call that ends on a 200 with a valid body after k loading answers
\* returns the decoded result without error after k+1 requests and k waits
\* (k < 10); one loading answer means two requests and one wait.
C2_SuccessAfterLoading ==
  \A p \in Handlers :
    (Returned(p) /\ lastResp[p] = Resp(200, ValidBody))
      => /\ ret[p] = Success([Answer |-> "42", Aggregator |-> "NONE"])
         /\ nload[p] < 10
         /\ nreq[p] = nload[p] + 1
         /\ nwait[p] = nload[p]

C2_Witness ==
  \E p \in Handlers :
    /\ Returned(p) /\ lastResp[p] = Resp(200, ValidBody)
    /\ ret[p].err = "nil" /\ ret[p].val.Answer = "42"
    /\ nload[p] = 1 /\ nreq[p] = 2 /\ nwait[p] = 1 /\ lastWait[p] = 0

\* C3: a call whose attempt met a connection-level error has returned that
\* error, and that attempt was its last: every earlier attempt was a loading
\* answer, and no wait followed the failing one.
C3_TransportErrorNotRetried ==
  \A p \in Handlers :
    (nreq[p] > 0 /\ lastResp[p].kind = "err")
      => /\ Returned(p)
         /\ ret[p] = Failure("TransportError", 0, "")
         /\ nreq[p] = nload[p] + 1
         /\ nwait[p] = nload[p]

C3_Witness ==
  \E p \in Handlers :
    /\ Returned(p) /\ lastResp[p].kind = "err" /\ ret[p].err = "TransportError"
    /\ nreq[p] = 3 /\ nwait[p] = 2

\* C4 as claimed: an answer that is neither a 200 nor a 503 with a usable
\* estimated_time ends the call at once with an error that carries the
\* status and the body exactly as the server sent it.
C4_RemoteErrorCarriesRawBody ==
  \A p \in Handlers :
    (nreq[p] > 0 /\ lastResp[p].kind = "resp" /\ lastResp[p].status # 200
       /\ ~IsLoading(lastResp[p]))
      => /\ Returned(p)
         /\ ret[p] = Failure("RemoteError", lastResp[p].status, lastResp[p].body)
         /\ nreq[p] = nload[p] + 1
         /\ nwait[p] = nload[p]

\* C5 as claimed: after a loading answer the call has waited for exactly
\* the estimated_time the server reported.
C5_WaitEqualsEstimate ==
  \A p \in Handlers :
    (nreq[p] > 0 /\ IsLoading(lastResp[p]))
      => lastWait[p] = EstimatedTimes[lastResp[p].body]

\* C10 as claimed: every attempt transmits the complete serialized
\* {table, query} body.
C10_EveryAttemptSendsFullBody ==
  \A p \in Handlers :
    nreq[p] > 0 =>
      sent[p] = << [name |-> "table", value |-> table],
                   [name |-> "query", value |-> query[p]] >>

----------------------------------------------------------------------------
(* Properties of CsvToSlice, checked under SpecCsv *)

CsvDone == csvPc = "done"

Header == RawRecords(data)[1]
DataRows == Tail(RawRecords(data))
HasHeader == RawRecords(data) # <<>>

\* Every record has as many fields as the header: what the reader accepts.
Rectangular == \A k \in 1..Len(RawRecords(data)) : Len(RawRecords(data)[k]) = Len(Header)

DistinctHeader == \A a, b \in 1..Len(Header) : Header[a] = Header[b] => a = b

\* The idx-th fields, in row order, of the data rows that have one.
FieldsAt(idx) ==
  LET have == SelectSeq(DataRows, LAMBDA r : idx <= Len(r))
  IN  [k \in 1..Len(have) |-> have[k][idx]]

LastPosition(name) ==
  CHOOSE a \in 1..Len(Header) :
    Header[a] = name /\ \A b \in 1..Len(Header) : Header[b] = name => b <= a

\* C6 as claimed: one column per header position, also when two header
\* cells carry the same name, each holding the fields at its position.
C6_OneColumnPerHeaderPosition ==
  (CsvDone /\ HasHeader /\ Rectangular)
    => /\ csvOut.err = "nil"
       /\ Cardinality(DOMAIN csvOut.table) = Len(Header)
       /\ \A a \in 1..Len(Header) :
            Header[a] \in DOMAIN csvOut.table /\ csvOut.table[Header[a]] = FieldsAt(a)

\* C6 amended: for a text the reader accepts, the columns are the distinct
\* header names; each column holds, in row order, the fields at the last
\* header position carrying its name, one per data row.
C6_ColumnsAreDistinctHeaderNames ==
  (CsvDone /\ HasHeader /\ Rectangular)
    => /\ csvOut.err = "nil"
       /\ DOMAIN csvOut.table = {Header[a] : a \in 1..Len(Header)}
       /\ \A name \in DOMAIN csvOut.table :
            /\ csvOut.table[name] = FieldsAt(LastPosition(name))
            /\ Len(csvOut.table[name]) = Len(DataRows)
       /\ DistinctHeader =>
            \A a \in 1..Len(Header) : csvOut.table[Header[a]] = FieldsAt(a)

C6_Witness ==
  /\ CsvDone /\ csvOut.err = "nil"
  /\ Len(Header) = 2 /\ Header[1] = Header[2]
  /\ Len(DataRows) = 1 /\ DataRows[1][1] # DataRows[1][2]
  /\ csvOut.table[Header[1]] = <<DataRows[1][2]>>

\* C7 as claimed: a data row shorter than the header is accepted; it adds
\* an entry to the columns it covers and nothing to the others.
C7_ShortRowAccepted ==
  (/\ CsvDone /\ HasHeader /\ DistinctHeader
   /\ \A k \in 1..Len(DataRows) : Len(DataRows[k]) <= Len(Header)
   /\ \E k \in 1..Len(DataRows) : Len(DataRows[k]) < Len(Header))
    => /\ csvOut.err = "nil"
       /\ \A a \in 1..Len(Header) :
            /\ Header[a] \in DOMAIN csvOut.table
            /\ csvOut.table[Header[a]] = FieldsAt(a)

OnlyNewlines == \A k \in 1..Len(data) : data[k] = "\n"

\* C8: a text with no record (empty, or nothing but line ends) gives an
\* error and no table; a text with a header and no data row gives every
\* header column with an empty sequence.
C8_ZeroRecordsRejected ==
  CsvDone =>
    /\ OnlyNewlines => (csvOut.err = "no data found" /\ csvOut.table = NilTable)
    /\ (HasHeader /\ Len(DataRows) = 0)
         => /\ csvOut.err = "nil"
            /\ DOMAIN csvOut.table = {Header[a] : a \in 1..Len(Header)}
            /\ \A name \in DOMAIN csvOut.table : csvOut.table[name] = <<>>

C8_Witness ==
  /\ CsvDone /\ data = <<"\n", "\n">>
  /\ csvOut.err = "no data found" /\ csvOut.table = NilTable

----------------------------------------------------------------------------
(* Properties of the server, checked under Spec *)

CallState(p) ==
  <<pc[p], query[p], req[p], i[p], ret[p], lastResp[p], lastWait[p], sent[p],
    nreq[p], nwait[p], nload[p]>>

TableIsLoadedTable == pcMain = "serving" => table = CsvToSlice(data).table

TableNeverWritten == pcMain = "serving" => (pcMain' = "serving" /\ table' = table)

OneCallPerStep ==
  \A p, r \in Handlers :
    (p # r /\ CallState(p)' # CallState(p)) => CallState(r)' = CallState(r)

\* C9: once the server is up the shared table stays what CsvToSlice made
\* of the file at startup, whatever the handlers do, and a step of one
\* call changes nothing of another call.
C9_TableReadOnly ==
  /\ []TableIsLoadedTable
  /\ [][TableNeverWritten /\ OneCallPerStep]_vars

C9_Witness ==
  \E p, r \in Handlers :
    /\ p # r /\ pcMain = "serving" /\ table # NilTable
    /\ pc[p] = "loop" /\ i[p] >= 1
    /\ Returned(r) /\ ret[r].err = "nil"

====
